---------------------------- MODULE Spec2Model ----------------------------
(***************************************************************************)
(* Model of NlktTokenizer (src/tokenization_nltk.py): a word-level         *)
(* tokenizer that loads a newline-delimited vocabulary file, delegates     *)
(* text splitting to nltk.word_tokenize and converts tokens <-> ids.       *)
(*                                                                         *)
(* Python strings are sequences of one-character strings, so that          *)
(* str.strip, str.replace, `in`, readlines and the file round trip are     *)
(* computed character by character.  A Python dict is the sequence of its  *)
(* <<key, value>> items in insertion order.  An Optional value is <<>>     *)
(* (None) or <<v>>.                                                        *)
(***************************************************************************)
EXTENDS Integers, Sequences, FiniteSets, TLC

VARIABLES eos_token, vocab, id_to_token, added_tokens_encoder,
          vocab_file, saved_file, last

vars == <<eos_token, vocab, id_to_token, added_tokens_encoder,
          vocab_file, saved_file, last>>

(***************************************************************************)
(* Bounds of the model.                                                    *)
(***************************************************************************)
MaxLines == 3
MaxPieces == 2
MaxAdded == 1
MaxId == 5

(***************************************************************************)
(* String literals of the program.                                         *)
(***************************************************************************)
NL == "\n"
UNK == <<"[", "U", "N", "K", "]">>
END_OF_TEXT == <<"<", "e", "n", "d", "_", "o", "f", "_", "t", "e", "x", "t", ">">>
DEFAULT_EOS == <<"<", "s", ">">>
None == <<>>
Some(v) == <<v>>

(***************************************************************************)
(* Python dict: items in insertion order, keys unique.                     *)
(***************************************************************************)
DictKeys(d) == [i \in 1..Len(d) |-> d[i][1]]
DictHas(d, k) == \E i \in 1..Len(d) : d[i][1] = k
DictIndex(d, k) == CHOOSE i \in 1..Len(d) : d[i][1] = k
DictGet(d, k, default) == IF DictHas(d, k) THEN Some(d[DictIndex(d, k)][2]) ELSE default
DictSet(d, k, v) ==
    IF DictHas(d, k) THEN [d EXCEPT ![DictIndex(d, k)] = <<k, v>>]
    ELSE Append(d, <<k, v>>)

RECURSIVE DictUpdate(_, _)
DictUpdate(d, items) ==
    IF items = <<>> THEN d
    ELSE DictUpdate(DictSet(d, items[1][1], items[1][2]), Tail(items))

(***************************************************************************)
(* Python str primitives.                                                  *)
(***************************************************************************)
IsSpace(c) == c \in {" ", NL}

RECURSIVE lstrip(_)
lstrip(s) == IF s # <<>> /\ IsSpace(Head(s)) THEN lstrip(Tail(s)) ELSE s

RECURSIVE rstrip(_)
rstrip(s) ==
    IF s # <<>> /\ IsSpace(s[Len(s)]) THEN rstrip(SubSeq(s, 1, Len(s) - 1)) ELSE s

strip(s) == rstrip(lstrip(s))

StartsWith(s, p) == Len(p) <= Len(s) /\ SubSeq(s, 1, Len(p)) = p

\* `sub in s`
Contains(s, sub) ==
    \E i \in 0..(Len(s) - Len(sub)) : SubSeq(s, i + 1, i + Len(sub)) = sub

\* s.replace(old, new) for a non-empty old: leftmost, non-overlapping
RECURSIVE Replace(_, _, _)
Replace(s, old, new) ==
    IF s = <<>> THEN <<>>
    ELSE IF StartsWith(s, old)
         THEN new \o Replace(SubSeq(s, Len(old) + 1, Len(s)), old, new)
         ELSE <<Head(s)>> \o Replace(Tail(s), old, new)

\* f.readlines(): every line keeps its terminating newline
RECURSIVE ReadLinesFrom(_, _)
ReadLinesFrom(f, cur) ==
    IF f = <<>> THEN (IF cur = <<>> THEN <<>> ELSE <<cur>>)
    ELSE IF Head(f) = NL
         THEN <<Append(cur, NL)>> \o ReadLinesFrom(Tail(f), <<>>)
         ELSE ReadLinesFrom(Tail(f), Append(cur, Head(f)))

readlines(f) == ReadLinesFrom(f, <<>>)

(***************************************************************************)
(* __init__: the vocabulary and its reverse.                               *)
(***************************************************************************)
RECURSIVE LoadFrom(_, _, _)
LoadFrom(lines, idx, d) ==
    IF lines = <<>> THEN d
    ELSE LoadFrom(Tail(lines), idx + 1, DictSet(d, strip(Head(lines)), idx))

\* {line.strip(): idx for idx, line in enumerate(f.readlines())}
LoadVocab(f) == LoadFrom(readlines(f), 0, <<>>)

RECURSIVE InvertFrom(_, _)
InvertFrom(items, d) ==
    IF items = <<>> THEN d
    ELSE InvertFrom(Tail(items), DictSet(d, items[1][2], items[1][1]))

\* {id: token for token, id in self.vocab.items()}
BuildIdToToken(v) == InvertFrom(v, <<>>)

(***************************************************************************)
(* Token <-> id conversion.                                                *)
(***************************************************************************)
\* variant: the +1 also applied to the unknown-token fallback
_convert_token_to_id_offset_unknown(v, token) ==
    IF DictHas(v, token)
    THEN Some(DictGet(v, token, DictGet(v, UNK, None))[1] + 1)
    ELSE IF DictHas(v, UNK) THEN Some(DictGet(v, UNK, None)[1] + 1) ELSE None

\* variant: the internal index returned without the +1
_convert_token_to_id_no_offset(v, token) ==
    IF DictHas(v, token)
    THEN Some(DictGet(v, token, DictGet(v, UNK, None))[1])
    ELSE DictGet(v, UNK, None)

\* self.vocab.get(token, self.vocab.get("[UNK]")) + 1 if token in self.vocab
\*     else self.vocab.get("[UNK]")
_convert_token_to_id(v, token) ==
    IF DictHas(v, token)
    THEN Some(DictGet(v, token, DictGet(v, UNK, None))[1] + 1)
    ELSE DictGet(v, UNK, None)

\* variant: the id looked up without the -1 adjustment
_convert_id_to_token_no_adjust(rev, index) ==
    DictGet(rev, index, Some(UNK))[1]

\* variant: .get without the "[UNK]" default (None, written <<>>)
_convert_id_to_token_no_default(rev, index) ==
    LET adjusted_index == index - 1
    IN  DictGet(rev, adjusted_index, Some(None))[1]

_convert_id_to_token(rev, index) ==
    LET adjusted_index == index - 1
    IN  DictGet(rev, adjusted_index, Some(UNK))[1]

vocab_size(v) == Len(v)

(***************************************************************************)
(* nltk.word_tokenize, restricted to the characters the modelled texts     *)
(* use: whitespace separates tokens, each of "," "<" ">" is a token of its *)
(* own, letters, digits and "_" accumulate into one word.  (No text of the *)
(* model has a digit right after a comma, a period, a quote or an English  *)
(* contraction, where the library has further rules.)                      *)
(***************************************************************************)
IsPunct(c) == c \in {",", "<", ">"}

Flush(cur) == IF cur = <<>> THEN <<>> ELSE <<cur>>

RECURSIVE WordTokenizeFrom(_, _)
WordTokenizeFrom(s, cur) ==
    IF s = <<>> THEN Flush(cur)
    ELSE IF IsSpace(Head(s)) THEN Flush(cur) \o WordTokenizeFrom(Tail(s), <<>>)
    ELSE IF IsPunct(Head(s))
         THEN Flush(cur) \o <<(<<Head(s)>>)>> \o WordTokenizeFrom(Tail(s), <<>>)
    ELSE WordTokenizeFrom(Tail(s), Append(cur, Head(s)))

word_tokenize(text) == WordTokenizeFrom(text, <<>>)

(***************************************************************************)
(* _tokenize and tokenize.                                                 *)
(***************************************************************************)
Digit(idx) == IF idx = 0 THEN "0" ELSE "1"

\* f" __SPECIAL{idx}__ "
Placeholder(idx) ==
    <<" ", "_", "_", "S", "P", "E", "C", "I", "A", "L", Digit(idx), "_", "_", " ">>

\* one iteration of the loop over enumerate(special_tokens); st is the pair
\* <<text, temp_replacements>>
SubstituteSpecial(st, idx, token) ==
    IF Contains(st[1], token)
    THEN <<Replace(st[1], token, Placeholder(idx)),
           DictSet(st[2], strip(Placeholder(idx)), token)>>
    ELSE st

_tokenize(eos, text) ==
    LET st0 == <<text, <<>>>>
        st1 == SubstituteSpecial(st0, 0, eos)
        st2 == SubstituteSpecial(st1, 1, END_OF_TEXT)
        tokens == word_tokenize(st2[1])
    IN  [i \in 1..Len(tokens) |-> DictGet(st2[2], tokens[i], Some(tokens[i]))[1]]

InSeq(x, seq) == \E i \in 1..Len(seq) : seq[i] = x

\* variant: the special tokens looked for at the boundaries only
tokenize_boundary_check(eos, text, add_special_tokens) ==
    LET tokens == _tokenize(eos, text)
        t1 == IF add_special_tokens /\ (tokens = <<>> \/ tokens[1] # eos)
              THEN <<eos>> \o tokens ELSE tokens
        t2 == IF add_special_tokens /\ (t1 = <<>> \/ t1[Len(t1)] # END_OF_TEXT)
              THEN Append(t1, END_OF_TEXT) ELSE t1
    IN  t2

tokenize(eos, text, add_special_tokens) ==
    LET tokens == _tokenize(eos, text)
        t1 == IF add_special_tokens /\ ~InSeq(eos, tokens)
              THEN <<eos>> \o tokens ELSE tokens
        t2 == IF add_special_tokens /\ ~InSeq(END_OF_TEXT, t1)
              THEN Append(t1, END_OF_TEXT) ELSE t1
    IN  t2

(***************************************************************************)
(* save_vocabulary and get_vocab.                                          *)
(***************************************************************************)
VOCAB_TXT == <<"v", "o", "c", "a", "b", ".", "t", "x", "t">>

\* filename_prefix + "vocab.txt", with "" for a falsy prefix
VocabPath(filename_prefix) ==
    (IF filename_prefix = None THEN <<>> ELSE filename_prefix[1]) \o VOCAB_TXT

RECURSIVE WriteKeys(_)
WriteKeys(keys) ==
    IF keys = <<>> THEN <<>> ELSE Head(keys) \o <<NL>> \o WriteKeys(Tail(keys))

\* for token in self.vocab.keys(): f.write(token + '\n')
SavedContent(v) == WriteKeys(DictKeys(v))

RECURSIVE BaseViewFrom(_, _, _, _)
BaseViewFrom(rev, i, n, d) ==
    IF i >= n THEN d
    ELSE BaseViewFrom(rev, i + 1, n, DictSet(d, _convert_id_to_token(rev, i + 1), i))

\* {self._convert_id_to_token(i + 1): i for i in range(self.vocab_size())}
BaseView(v, rev) == BaseViewFrom(rev, 0, vocab_size(v), <<>>)

get_vocab(v, rev, added) ==
    LET base == BaseView(v, rev)
        overlay == [k \in 1..Len(added) |-> <<added[k][1], added[k][2] + Len(base)>>]
    IN  DictUpdate(base, overlay)

(***************************************************************************)
(* Inputs.                                                                 *)
(***************************************************************************)
TOK_A == <<"a">>
TOK_B == <<"b">>
TOK_Z == <<"z">>
TOK_NEW == <<"<", "n", ">">>

RECURSIVE Concat(_)
Concat(ss) == IF ss = <<>> THEN <<>> ELSE Head(ss) \o Concat(Tail(ss))

SeqsUpTo(S, n) == UNION {[1..k -> S] : k \in 0..n}

\* vocabulary files: up to MaxLines newline-terminated lines
LineChoices == {TOK_A, <<" ", "a">>, TOK_B, UNK}
Files == {Concat([i \in 1..Len(ls) |-> ls[i] \o <<NL>>]) : ls \in SeqsUpTo(LineChoices, MaxLines)}

EosTokens == {DEFAULT_EOS, END_OF_TEXT}

\* texts: concatenations of up to MaxPieces pieces
Pieces == {TOK_A, <<" ">>, DEFAULT_EOS, END_OF_TEXT, TOK_NEW}
Texts == {Concat(ps) : ps \in SeqsUpTo(Pieces, MaxPieces)}
\* the empty text and the single pieces, for the runs that also vary the vocabulary
SmallTexts == {<<>>} \cup Pieces

Tokens == {TOK_A, TOK_B, TOK_Z, UNK, <<" ", "a">>}
Ids == (-2..MaxId) \cup {99999}
AddableTokens == {END_OF_TEXT, TOK_NEW}
Prefixes == {None, Some(<<"m", "y", "-">>)}
Paths == {VocabPath(p) : p \in Prefixes}

(***************************************************************************)
(* State machine.                                                          *)
(***************************************************************************)
Call(op, arg, ret) == [op |-> op, arg |-> arg, ret |-> ret]

\* NlktTokenizer(vocab_file=f, eos_token=eos)
Construct(f, eos) ==
    /\ vocab_file = f
    /\ eos_token = eos
    /\ vocab = LoadVocab(f)
    /\ id_to_token = BuildIdToToken(LoadVocab(f))
    /\ added_tokens_encoder = <<>>
    /\ saved_file = [p \in Paths |-> None]
    /\ last = Call("__init__", <<>>, <<>>)

Init == \E f \in Files, eos \in EosTokens : Construct(f, eos)

Tokenize(T) ==
    \E text \in T, add_special_tokens \in BOOLEAN :
        /\ last' = Call("tokenize", <<text, add_special_tokens>>,
                        tokenize(eos_token, text, add_special_tokens))
        /\ UNCHANGED <<eos_token, vocab, id_to_token, added_tokens_encoder,
                       vocab_file, saved_file>>

ConvertTokenToId ==
    \E token \in Tokens :
        /\ last' = Call("_convert_token_to_id", token, _convert_token_to_id(vocab, token))
        /\ UNCHANGED <<eos_token, vocab, id_to_token, added_tokens_encoder,
                       vocab_file, saved_file>>

ConvertIdToToken ==
    \E index \in Ids :
        /\ last' = Call("_convert_id_to_token", index, _convert_id_to_token(id_to_token, index))
        /\ UNCHANGED <<eos_token, vocab, id_to_token, added_tokens_encoder,
                       vocab_file, saved_file>>

VocabSize ==
    /\ last' = Call("vocab_size", <<>>, vocab_size(vocab))
    /\ UNCHANGED <<eos_token, vocab, id_to_token, added_tokens_encoder,
                   vocab_file, saved_file>>

SaveVocabulary ==
    \E filename_prefix \in Prefixes :
        /\ saved_file' = [saved_file EXCEPT ![VocabPath(filename_prefix)] =
                              Some(SavedContent(vocab))]
        /\ last' = Call("save_vocabulary", filename_prefix, VocabPath(filename_prefix))
        /\ UNCHANGED <<eos_token, vocab, id_to_token, added_tokens_encoder, vocab_file>>

\* variant: the view built into self.vocab itself
GetVocabInPlace ==
    /\ vocab' = get_vocab(vocab, id_to_token, added_tokens_encoder)
    /\ last' = Call("get_vocab", <<>>, get_vocab(vocab, id_to_token, added_tokens_encoder))
    /\ UNCHANGED <<eos_token, id_to_token, added_tokens_encoder, vocab_file, saved_file>>

GetVocab ==
    /\ last' = Call("get_vocab", <<>>, get_vocab(vocab, id_to_token, added_tokens_encoder))
    /\ UNCHANGED <<eos_token, vocab, id_to_token, added_tokens_encoder,
                   vocab_file, saved_file>>

\* add_tokens([token]) of the host framework: a token not yet known is
\* registered under the next free id, counted from the vocabulary size
AddTokens ==
    \E token \in AddableTokens :
        /\ Len(added_tokens_encoder) < MaxAdded
        /\ ~DictHas(added_tokens_encoder, token)
        /\ ~DictHas(vocab, token)
        /\ added_tokens_encoder' =
               Append(added_tokens_encoder,
                      <<token, vocab_size(vocab) + Len(added_tokens_encoder)>>)
        /\ last' = Call("add_tokens", token, 1)
        /\ UNCHANGED <<eos_token, vocab, id_to_token, vocab_file, saved_file>>

Next ==
    \/ Tokenize(SmallTexts)
    \/ ConvertTokenToId
    \/ ConvertIdToToken
    \/ VocabSize
    \/ SaveVocabulary
    \/ GetVocab
    \/ AddTokens

Spec == Init /\ [][Next]_vars

\* tokenization alone, over the larger set of texts
DefaultFile == UNK \o <<NL>> \o TOK_A \o <<NL>> \o TOK_B \o <<NL>>

InitTok == \E eos \in EosTokens : Construct(DefaultFile, eos)

NextTok ==
    \/ Tokenize(Texts)
    \/ AddTokens

SpecTok == InitTok /\ [][NextTok]_vars

(***************************************************************************)
(* Properties.                                                             *)
(***************************************************************************)
IndexOf(v, token) == v[DictIndex(v, token)][2]

\* C1: token_to_id(t) is Vocabulary[t] + 1 for a key t of the vocabulary;
\* for any other t it is Vocabulary.get("[UNK]") itself, with no +1, and the
\* call returns (None when "[UNK]" is absent) instead of raising.
C1_TokenToId ==
    last.op = "_convert_token_to_id" =>
        /\ \A i \in 1..Len(vocab) :
               vocab[i][1] = last.arg => last.ret = <<vocab[i][2] + 1>>
        /\ (\A i \in 1..Len(vocab) : vocab[i][1] # last.arg) =>
               /\ \A j \in 1..Len(vocab) :
                      vocab[j][1] = UNK => last.ret = <<vocab[j][2]>>
               /\ (\A j \in 1..Len(vocab) : vocab[j][1] # UNK) => last.ret = None

C1_Witness ==
    /\ last.op = "_convert_token_to_id"
    /\ last.arg = TOK_Z
    /\ DictHas(vocab, UNK) /\ IndexOf(vocab, UNK) = 2
    /\ last.ret = <<2>>

\* C2: id_to_token(id) is the reverse-vocabulary entry at index id - 1 when
\* there is one, and the literal "[UNK]" otherwise, for every integer id.
C2_IdToToken ==
    last.op = "_convert_id_to_token" =>
        /\ \A i \in 1..Len(id_to_token) :
               id_to_token[i][1] = last.arg - 1 => last.ret = id_to_token[i][2]
        /\ (\A i \in 1..Len(id_to_token) : id_to_token[i][1] # last.arg - 1) =>
               last.ret = UNK

C2_Witness ==
    /\ last.op = "_convert_id_to_token"
    /\ last.arg = 2
    /\ Len(vocab) = 3
    /\ last.ret = TOK_B

\* C3: for every key t of the vocabulary, id_to_token(token_to_id(t)) = t.
C3_RoundTrip ==
    (last.op = "_convert_token_to_id" /\ DictHas(vocab, last.arg)) =>
        _convert_id_to_token(id_to_token, last.ret[1]) = last.arg

C3_Witness ==
    /\ last.op = "_convert_token_to_id"
    /\ last.arg = TOK_A
    /\ DictHas(vocab, TOK_A) /\ IndexOf(vocab, TOK_A) = 2
    /\ Len(vocab) = 2

\* the sequence tokenize returns when the two boundary decisions are taken
\* as insert_eos and append_eot
WithBoundaries(raw, eos, insert_eos, append_eot) ==
    (IF insert_eos THEN <<eos>> ELSE <<>>) \o raw
        \o (IF append_eot THEN <<END_OF_TEXT>> ELSE <<>>)

\* C4 as stated: without add_special_tokens, tokenize returns the
\* tokenize_raw sequence; with it, the end-of-sequence token is put first iff
\* it is nowhere in the raw sequence and the end-of-text token is put last
\* iff it is nowhere in the raw sequence.
C4_Original ==
    last.op = "tokenize" =>
        LET raw == _tokenize(eos_token, last.arg[1])
        IN  IF last.arg[2]
            THEN last.ret = WithBoundaries(raw, eos_token, ~InSeq(eos_token, raw),
                                           ~InSeq(END_OF_TEXT, raw))
            ELSE last.ret = raw

\* C4 (amended): as above, except that the end-of-text token is put last iff
\* it is nowhere in the sequence as it stands after the end-of-sequence
\* step, that is, nowhere in the raw sequence and not just inserted in front
\* as the end-of-sequence token.
C4_Tokenize ==
    last.op = "tokenize" =>
        LET raw == _tokenize(eos_token, last.arg[1])
            insert_eos == ~InSeq(eos_token, raw)
            append_eot == ~InSeq(END_OF_TEXT, raw)
                          /\ ~(insert_eos /\ eos_token = END_OF_TEXT)
        IN  IF last.arg[2]
            THEN last.ret = WithBoundaries(raw, eos_token, insert_eos, append_eot)
            ELSE last.ret = raw

C4_Witness ==
    /\ last.op = "tokenize"
    /\ last.arg[2]
    /\ eos_token = DEFAULT_EOS
    /\ last.arg[1] = TOK_A \o DEFAULT_EOS
    /\ last.ret = <<TOK_A, DEFAULT_EOS, END_OF_TEXT>>

\* C5: every token registered through add_tokens that the text embeds
\* literally is an element of the sequence tokenize returns.
C5_AddedTokenStandalone ==
    last.op = "tokenize" =>
        \A k \in 1..Len(added_tokens_encoder) :
            Contains(last.arg[1], added_tokens_encoder[k][1]) =>
                InSeq(added_tokens_encoder[k][1], last.ret)

\* C6: the file save_vocabulary writes, loaded by a second tokenizer, gives
\* a vocabulary identical to the first one's, order included.
C6_SaveReload ==
    \A p \in Paths :
        saved_file[p] # None => LoadVocab(saved_file[p][1]) = vocab

\* C7: get_vocab returns the vocabulary's token -> index mapping, extended
\* with the added tokens numbered from len(base view) upward in the order of
\* their registration.
C7_GetVocab ==
    last.op = "get_vocab" =>
        LET n == vocab_size(vocab)
        IN  /\ \A i \in 1..Len(vocab) :
                   DictGet(last.ret, vocab[i][1], None) = <<vocab[i][2]>>
            /\ \A k \in 1..Len(added_tokens_encoder) :
                   DictGet(last.ret, added_tokens_encoder[k][1], None) = <<n + k - 1>>

\* C8: after construction the indices of the vocabulary are exactly
\* 0 .. vocabulary_size() - 1.
C8_DenseIndices ==
    {vocab[i][2] : i \in 1..Len(vocab)} = 0..(vocab_size(vocab) - 1)

\* C9: in every reachable state the vocabulary and the reverse vocabulary
\* are the ones built at construction from the vocabulary file, and
\* reverse[idx] = token for every (token, idx) of the vocabulary.
C9_VocabImmutable ==
    /\ vocab = LoadVocab(vocab_file)
    /\ id_to_token = BuildIdToToken(LoadVocab(vocab_file))
    /\ \A i \in 1..Len(vocab) :
           \E j \in 1..Len(id_to_token) :
               id_to_token[j] = <<vocab[i][2], vocab[i][1]>>

C9_Witness ==
    /\ last.op = "get_vocab"
    /\ Len(added_tokens_encoder) > 0
    /\ \E p \in Paths : saved_file[p] # None
    /\ Len(vocab) = 2

\* C10 as stated: when "[UNK]" is in the vocabulary and u is not,
\* id_to_token(token_to_id(u)) = "[UNK]".
C10_Original ==
    (/\ last.op = "_convert_token_to_id"
     /\ DictHas(vocab, UNK)
     /\ ~DictHas(vocab, last.arg)) =>
        _convert_id_to_token(id_to_token, last.ret[1]) = UNK

\* C10 (amended): when "[UNK]" is in the vocabulary at an index k such that
\* no token has index k - 1 (as when "[UNK]" is the first line, k = 0) and u
\* is not in the vocabulary, id_to_token(token_to_id(u)) = "[UNK]".
C10_UnknownRoundTrip ==
    (/\ last.op = "_convert_token_to_id"
     /\ DictHas(vocab, UNK)
     /\ ~DictHas(vocab, last.arg)
     /\ \A i \in 1..Len(vocab) : vocab[i][2] # IndexOf(vocab, UNK) - 1) =>
        _convert_id_to_token(id_to_token, last.ret[1]) = UNK

C10_Witness ==
    /\ last.op = "_convert_token_to_id"
    /\ last.arg = TOK_Z
    /\ DictHas(vocab, UNK) /\ IndexOf(vocab, UNK) = 0
    /\ Len(vocab) = 3
    /\ last.ret = <<0>>

=============================================================================
